---- MODULE Spec2Model ----
(***************************************************************************)
(* A model of tools/deobfuscate_worker.py: the string-array deobfuscator.  *)
(*                                                                         *)
(* Text is modelled as sequences of code points (Python str -> Seq(Nat)),  *)
(* so that chr()/ord(), int(..., 16) and the escape tables are computed,   *)
(* not assumed.  Python indices are 0-based; s[i] is written s[i + 1].     *)
(*                                                                         *)
(* Five specifications:                                                    *)
(*   Spec          main(): extraction, rotation loop, aliases, rewriting   *)
(*   SpecBalanced  _extract_balanced on bounded texts                      *)
(*   SpecAliases   _collect_aliases on bounded declaration lists           *)
(*   SpecLiteral   _decode_js_string_literal on literal texts              *)
(*   SpecRoundTrip json.dumps, then _decode_js_string_literal              *)
(***************************************************************************)
EXTENDS Integers, Sequences, FiniteSets, TLC

VARIABLES
    pc,        \* position in main(), or "call"/"return" of a unit under test
    arr0,      \* ghost: the table as _extract_string_array returned it
    arr,       \* the string table, rotated in place
    offset,    \* _extract_q_offset(src)
    target,    \* bootstrap["target"]
    k_expr,    \* bootstrap["k_expr_js"], parsed
    iter,      \* number of completed passes of `for _ in range(max_iter)`
    edges,     \* the (left, right) pairs assign_re finds, in text order
    aliases,   \* _collect_aliases(src)
    calls,     \* the matches of call_re that re.sub has handed to replace()
    cache,     \* cache: dict[int, str]
    out,       \* replace()'s return value for each match handled so far
    err,       \* the exception that left main(), "" if none
    written,   \* whether OUTPUT has been opened for writing
    js,        \* _extract_balanced: text
    start,     \* _extract_balanced: start
    delims,    \* _extract_balanced: <<open_ch, close_ch>>
    region,    \* _extract_balanced: result
    sval,      \* a string value handed to json.dumps
    literal,   \* a literal text handed to _decode_js_string_literal
    decoded    \* _decode_js_string_literal: result

vars == <<pc, arr0, arr, offset, target, k_expr, iter, edges, aliases, calls,
          cache, out, err, written, js, start, delims, region, sval,
          literal, decoded>>

mainVars == <<arr0, arr, offset, target, k_expr, iter, aliases, calls,
              cache, out, err, written>>
balVars == <<js, start, delims, region>>
litVars == <<sval, literal, decoded>>

-----------------------------------------------------------------------------
(* Bounds of the model.                                                    *)

MaxBody == 5       \* longest literal body handed to the decoder
MaxStr == 3        \* longest string value handed to json.dumps
MaxJs == 6         \* longest text handed to _extract_balanced
MaxStart == 1      \* largest start position handed to _extract_balanced
MaxEdges == 3      \* most declarations handed to _collect_aliases
MaxLen == 3        \* longest extracted string table
MaxOffset == 1     \* largest decoder offset
MaxCalls == 2      \* most call sites in the source text

-----------------------------------------------------------------------------
(* Characters and Python helpers.                                          *)

Ch == [dq |-> 34, sq |-> 39, bsl |-> 92, lpar |-> 40, rpar |-> 41,
       lbrace |-> 123, rbrace |-> 125, lbrk |-> 91, rbrk |-> 93,
       plus |-> 43, minus |-> 45, us |-> 95, zero |-> 48, one |-> 49,
       two |-> 50, a |-> 97, b |-> 98, f |-> 102, n |-> 110, r |-> 114,
       t |-> 116, u |-> 117, v |-> 118, x |-> 120, bigX |-> 88, z |-> 122,
       bigQ |-> 81, nl |-> 10, cr |-> 13, tab |-> 9, bs |-> 8, ff |-> 12,
       vt |-> 11, nul |-> 0, soh |-> 1, eacute |-> 233]

Ok(v) == [ok |-> TRUE, v |-> v]
Raise(e) == [ok |-> FALSE, exc |-> e]

Min(p, q) == IF p <= q THEN p ELSE q
Max(p, q) == IF p >= q THEN p ELSE q

\* s[i:j] for 0 <= i, with j clipped to len(s)
Slice(s, i, j) ==
    IF i >= Min(j, Len(s)) THEN <<>> ELSE SubSeq(s, i + 1, Min(j, Len(s)))

\* s.find(c, from): the least index >= from holding c, else -1
Find(s, c, from) ==
    LET hits == {k \in from..(Len(s) - 1) : s[k + 1] = c}
    IN IF hits = {} THEN -1 ELSE CHOOSE k \in hits : \A m \in hits : k <= m

\* the characters str.strip() and int() treat as white space (below 256)
PyWhitespace == {9, 10, 11, 12, 13, 28, 29, 30, 31, 32, 133, 160}

RECURSIVE LStrip(_)
LStrip(s) ==
    IF s # <<>> /\ Head(s) \in PyWhitespace THEN LStrip(Tail(s)) ELSE s

RECURSIVE RStrip(_)
RStrip(s) ==
    IF s # <<>> /\ s[Len(s)] \in PyWhitespace
    THEN RStrip(SubSeq(s, 1, Len(s) - 1)) ELSE s

Strip(s) == RStrip(LStrip(s))

\* the value of a hexadecimal digit, -1 for any other character
HexDigit(c) ==
    IF c \in 48..57 THEN c - 48
    ELSE IF c \in 97..102 THEN c - 87
    ELSE IF c \in 65..70 THEN c - 55
    ELSE -1

RECURSIVE DigitsValue(_, _, _)
DigitsValue(d, base, acc) ==
    IF d = <<>> THEN acc
    ELSE IF Head(d) = Ch.us THEN DigitsValue(Tail(d), base, acc)
    ELSE DigitsValue(Tail(d), base, acc * base + HexDigit(Head(d)))

\* digits with single underscores between them, as int() accepts them
DigitsOk(d, base) ==
    /\ d # <<>>
    /\ d[1] # Ch.us
    /\ d[Len(d)] # Ch.us
    /\ \A k \in 1..Len(d) :
          \/ d[k] = Ch.us /\ d[k + 1] # Ch.us
          \/ HexDigit(d[k]) \in 0..(base - 1)

\* int(s, 16): white space stripped, optional sign, optional 0x prefix
PyInt16(s) ==
    LET t == Strip(s)
        neg == t # <<>> /\ t[1] = Ch.minus
        u == IF t # <<>> /\ t[1] \in {Ch.plus, Ch.minus} THEN Tail(t) ELSE t
        pre == Len(u) >= 2 /\ u[1] = Ch.zero /\ u[2] \in {Ch.x, Ch.bigX}
        w == IF pre THEN SubSeq(u, 3, Len(u)) ELSE u
        d == IF pre /\ w # <<>> /\ w[1] = Ch.us THEN Tail(w) ELSE w
    IN IF ~DigitsOk(d, 16) THEN Raise("ValueError: invalid literal for int()")
       ELSE Ok(IF neg THEN 0 - DigitsValue(d, 16, 0) ELSE DigitsValue(d, 16, 0))

\* chr(n)
PyChr(n) ==
    IF n \in 0..1114111 THEN Ok(n) ELSE Raise("ValueError: chr() arg not in range")

-----------------------------------------------------------------------------
(* _decode_js_string_literal                                               *)

\* every escaped character passed through as it is
SingleEscapePassThrough(esc) == esc

\* the single-character escapes, lines 58-75
SingleEscape(esc) ==
    CASE esc = Ch.n -> Ch.nl
      [] esc = Ch.r -> Ch.cr
      [] esc = Ch.t -> Ch.tab
      [] esc = Ch.b -> Ch.bs
      [] esc = Ch.f -> Ch.ff
      [] esc = Ch.v -> Ch.vt
      [] esc = Ch.zero -> Ch.nul
      [] OTHER -> esc

\* out.append(chr(int(digits, 16))), then go on at position nxt
RECURSIVE DecodeBody(_, _, _)
AppendCodePoint(body, digits, nxt, acc) ==
    LET n == PyInt16(digits)
        c == IF n.ok THEN PyChr(n.v) ELSE n
    IN IF c.ok THEN DecodeBody(body, nxt, Append(acc, c.v)) ELSE c

\* the while loop of lines 32-75: i is the loop index, acc is `out`
DecodeBody(body, i, acc) ==
    IF i >= Len(body) THEN Ok(acc)
    ELSE IF body[i + 1] # Ch.bsl THEN DecodeBody(body, i + 1, Append(acc, body[i + 1]))
    ELSE IF i + 1 >= Len(body) THEN Ok(acc)
    ELSE LET esc == body[i + 2]
             j == i + 2
         IN IF esc = Ch.x /\ j + 2 <= Len(body)
            THEN AppendCodePoint(body, Slice(body, j, j + 2), j + 2, acc)
            ELSE IF esc = Ch.u
            THEN IF j < Len(body) /\ body[j + 1] = Ch.lbrace
                 THEN LET close == Find(body, Ch.rbrace, j + 1)
                      IN IF close = -1
                         THEN DecodeBody(body, j, Append(acc, Ch.u))
                         ELSE AppendCodePoint(body, Slice(body, j + 1, close),
                                              close + 1, acc)
                 ELSE AppendCodePoint(body, Slice(body, j, j + 4), j + 4, acc)
            ELSE DecodeBody(body, j, Append(acc, SingleEscape(esc)))

decode_js_string_literal(lit) ==
    IF Len(lit) >= 2 /\ lit[1] = lit[Len(lit)] /\ lit[1] \in {Ch.sq, Ch.dq}
    THEN DecodeBody(SubSeq(lit, 2, Len(lit) - 1), 0, <<>>)
    ELSE Raise("ValueError: Not a JS string literal")

-----------------------------------------------------------------------------
(* json.dumps(s, ensure_ascii=False) on a str                              *)

HexChar(d) == IF d < 10 THEN 48 + d ELSE 87 + d

JsonEscape(c) ==
    CASE c = Ch.dq -> <<Ch.bsl, Ch.dq>>
      [] c = Ch.bsl -> <<Ch.bsl, Ch.bsl>>
      [] c = Ch.nl -> <<Ch.bsl, Ch.n>>
      [] c = Ch.cr -> <<Ch.bsl, Ch.r>>
      [] c = Ch.tab -> <<Ch.bsl, Ch.t>>
      [] c = Ch.bs -> <<Ch.bsl, Ch.b>>
      [] c = Ch.ff -> <<Ch.bsl, Ch.f>>
      [] c \in 0..31 /\ c \notin {8, 9, 10, 12, 13} ->
            <<Ch.bsl, Ch.u, Ch.zero, Ch.zero, HexChar(c \div 16), HexChar(c % 16)>>
      [] OTHER -> <<c>>

RECURSIVE JsonBody(_)
JsonBody(s) == IF s = <<>> THEN <<>> ELSE JsonEscape(Head(s)) \o JsonBody(Tail(s))

json_dumps(s) == <<Ch.dq>> \o JsonBody(s) \o <<Ch.dq>>

-----------------------------------------------------------------------------
(* _extract_balanced                                                       *)

None == -1     \* Python's None where a character is expected

\* a matching quote always closes the string, escaped or not
InStringStepNoEscape(ch, in_str, escape) ==
    IF ch = in_str THEN [in_str |-> None, escape |-> FALSE]
    ELSE [in_str |-> in_str, escape |-> FALSE]

\* lines 89-97: one character read while in_str is set
InStringStep(ch, in_str, escape) ==
    IF escape THEN [in_str |-> in_str, escape |-> FALSE]
    ELSE IF ch = Ch.bsl THEN [in_str |-> in_str, escape |-> TRUE]
    ELSE IF ch = in_str THEN [in_str |-> None, escape |-> escape]
    ELSE [in_str |-> in_str, escape |-> escape]

\* the while loop of lines 87-109, then line 111
RECURSIVE BalancedScan(_, _, _, _, _, _, _, _)
BalancedScan(text, st, open_ch, close_ch, i, depth, in_str, escape) ==
    IF i >= Len(text) THEN Raise("ValueError: Unbalanced brackets")
    ELSE LET ch == text[i + 1]
         IN IF in_str # None
            THEN LET s == InStringStep(ch, in_str, escape)
                 IN BalancedScan(text, st, open_ch, close_ch, i + 1, depth,
                                 s.in_str, s.escape)
            ELSE IF ch \in {Ch.sq, Ch.dq}
            THEN BalancedScan(text, st, open_ch, close_ch, i + 1, depth, ch, escape)
            ELSE IF ch = open_ch
            THEN BalancedScan(text, st, open_ch, close_ch, i + 1, depth + 1,
                              in_str, escape)
            ELSE IF ch = close_ch
            THEN IF depth - 1 = 0
                 THEN Ok([text |-> Slice(text, st, i + 1), end |-> i + 1])
                 ELSE BalancedScan(text, st, open_ch, close_ch, i + 1, depth - 1,
                                   in_str, escape)
            ELSE BalancedScan(text, st, open_ch, close_ch, i + 1, depth,
                              in_str, escape)

extract_balanced(text, st, open_ch, close_ch) ==
    IF text[st + 1] # open_ch THEN Raise("ValueError: Expected open_ch at start")
    ELSE BalancedScan(text, st, open_ch, close_ch, st, 0, None, FALSE)

-----------------------------------------------------------------------------
(* _collect_aliases                                                        *)

Q == <<Ch.bigQ>>       \* the canonical decoder name, line 255

\* the for loop of lines 259-262, from the k-th edge on
RECURSIVE AliasPass(_, _, _, _)
AliasPass(es, k, al, changed) ==
    IF k > Len(es) THEN [aliases |-> al, changed |-> changed]
    ELSE LET left == es[k][1]
             right == es[k][2]
         IN IF right \in al /\ left \notin al
            THEN AliasPass(es, k + 1, al \cup {left}, TRUE)
            ELSE AliasPass(es, k + 1, al, changed)

\* a single pass over the edges, without the while loop
AliasLoopOnePass(es, al) == AliasPass(es, 1, al, FALSE).aliases

\* the while loop of lines 257-262
RECURSIVE AliasLoop(_, _)
AliasLoop(es, al) ==
    LET p == AliasPass(es, 1, al, FALSE)
    IN IF p.changed THEN AliasLoop(es, p.aliases) ELSE p.aliases

collect_aliases(es) == AliasLoop(es, {Q})

-----------------------------------------------------------------------------
(* main(): decode, parse_int and the evaluation of the convergence         *)
(* expression with exact rationals (fractions.Fraction).                   *)

\* list[p] as Python computes it: a negative p counts from the end
PyIndex(s, p) ==
    IF p \in 0..(Len(s) - 1) THEN Ok(s[p + 1])
    ELSE IF p \in (0 - Len(s))..(-1) THEN Ok(s[Len(s) + p + 1])
    ELSE Raise("IndexError: list index out of range")

\* lines 274-275
decode(table, off, num) == PyIndex(table, num - off)

Abs(n) == IF n < 0 THEN 0 - n ELSE n

RECURSIVE Gcd(_, _)
Gcd(p, q) == IF q = 0 THEN p ELSE Gcd(q, p % q)

\* Fraction(n, d) for d # 0, in lowest terms with a positive denominator
Fraction(n, d) ==
    LET g == Gcd(Abs(n), Abs(d))
        sgn == IF d < 0 THEN -1 ELSE 1
    IN [n |-> (sgn * n) \div g, d |-> (sgn * d) \div g]

\* the longest run of characters of s from index i on that satisfy Good
RECURSIVE RunEnd(_, _, _)
RunEnd(s, i, good) ==
    IF i < Len(s) /\ s[i + 1] \in good THEN RunEnd(s, i + 1, good) ELSE i

HexChars == (48..57) \cup (97..102) \cup (65..70)
DecChars == 48..57

\* int(token, 0) on a token the regex of line 282 matched
PyInt0(tok) ==
    LET neg == tok[1] = Ch.minus
        u == IF tok[1] \in {Ch.plus, Ch.minus} THEN Tail(tok) ELSE tok
        hex == Len(u) >= 2 /\ u[2] = Ch.x
        mag == IF hex THEN DigitsValue(SubSeq(u, 3, Len(u)), 16, 0)
               ELSE DigitsValue(u, 10, 0)
    IN IF ~hex /\ Len(u) > 1 /\ u[1] = Ch.zero /\ mag # 0
       THEN Raise("ValueError: invalid literal for int()")
       ELSE Ok(IF neg THEN 0 - mag ELSE mag)

\* lines 280-285
parse_int(x) ==
    LET s == Strip(x)
        k == IF s # <<>> /\ s[1] \in {Ch.plus, Ch.minus} THEN 1 ELSE 0
        hexEnd == IF Len(s) >= k + 2 /\ s[k + 1] = Ch.zero /\ s[k + 2] = Ch.x
                  THEN RunEnd(s, k + 2, HexChars) ELSE 0
        decEnd == RunEnd(s, k, DecChars)
        stop == IF hexEnd > k + 2 THEN hexEnd ELSE decEnd
    IN IF stop <= k THEN Raise("ValueError: parseInt could not parse")
       ELSE LET v == PyInt0(SubSeq(s, 1, stop))
            IN IF v.ok THEN Ok(Fraction(v.v, 1)) ELSE v

\* k_expr as Python parses it:
\*   [t |-> "num", v |-> n]              an integer literal
\*   [t |-> "parse_int", num |-> n]      parse_int(decode(n))
\*   [t |-> "neg", e |-> e1]             -e1
\*   [t |-> op, l |-> e1, r |-> e2]      e1 op e2, op one of + - * /
Num(n) == [t |-> "num", v |-> n]
ParseInt(n) == [t |-> "parse_int", num |-> n]
Neg(e) == [t |-> "neg", e |-> e]
Bin(op, l, r) == [t |-> op, l |-> l, r |-> r]

Arith(op, p, q) ==
    CASE op = "+" -> Ok(Fraction(p.n * q.d + q.n * p.d, p.d * q.d))
      [] op = "-" -> Ok(Fraction(p.n * q.d - q.n * p.d, p.d * q.d))
      [] op = "*" -> Ok(Fraction(p.n * q.n, p.d * q.d))
      [] op = "/" -> IF q.n = 0 THEN Raise("ZeroDivisionError")
                     ELSE Ok(Fraction(p.n * q.d, p.d * q.n))

\* eval(k_expr, env), line 292, with env["decode"] reading table and off
RECURSIVE Eval(_, _, _)
Eval(e, table, off) ==
    CASE e.t = "num" -> Ok(Fraction(e.v, 1))
      [] e.t = "parse_int" ->
            LET s == decode(table, off, e.num) IN IF s.ok THEN parse_int(s.v) ELSE s
      [] e.t = "neg" ->
            LET v == Eval(e.e, table, off)
            IN IF v.ok THEN Ok(Fraction(0 - v.v.n, v.v.d)) ELSE v
      [] OTHER ->
            LET p == Eval(e.l, table, off)
                q == Eval(e.r, table, off)
            IN IF ~p.ok THEN p ELSE IF ~q.ok THEN q ELSE Arith(e.t, p.v, q.v)

\* line 292 against the table as it stands
EvalK(table) == Eval(k_expr, table, offset)

\* line 293: k_val == target, no exception raised
Converged(table) ==
    LET k == EvalK(table) IN k.ok /\ k.v = Fraction(target, 1)

IterFloor == 10000
IterPerElement == 5

\* line 289
max_iter == Max(IterFloor, Len(arr) * IterPerElement)

\* a rotation the other way: arr.insert(0, arr.pop())
RotateLastToFront(table) ==
    <<table[Len(table)]>> \o SubSeq(table, 1, Len(table) - 1)

\* line 297 on a non-empty list: arr.append(arr.pop(0))
RotateOnce(table) == Append(Tail(table), Head(table))

\* m.group(0) of a match of call_re, line 303
MatchText(m) == m.name \o <<Ch.lpar>> \o m.arg \o <<Ch.rpar>>

-----------------------------------------------------------------------------
(* Inputs and idle values shared by the specifications.                    *)

SeqsUpTo(S, n) == UNION {[1..k -> S] : k \in 0..n}

NoCache == [n \in {} |-> <<>>]

MainIdle ==
    /\ arr0 = <<>> /\ arr = <<>> /\ offset = 0 /\ target = 0 /\ k_expr = <<>>
    /\ iter = 0 /\ aliases = {} /\ calls = <<>> /\ cache = NoCache
    /\ out = <<>> /\ err = "" /\ written = FALSE

BalIdle == js = <<>> /\ start = 0 /\ delims = <<>> /\ region = <<>>

LitIdle == sval = <<>> /\ literal = <<>> /\ decoded = <<>>

-----------------------------------------------------------------------------
(* SpecBalanced: _extract_balanced(js, start, open_ch, close_ch)           *)

DelimPairs == {<<Ch.lpar, Ch.rpar>>, <<Ch.lbrk, Ch.rbrk>>}

JsChars(d) == {d[1], d[2], Ch.sq, Ch.dq, Ch.bsl, Ch.a}

InitBalanced ==
    /\ pc = "call"
    /\ delims \in DelimPairs
    /\ js \in SeqsUpTo(JsChars(delims), MaxJs) \ {<<>>}
    /\ start \in 0..Min(MaxStart, Len(js) - 1)
    /\ region = <<>>
    /\ MainIdle /\ LitIdle /\ edges = <<>>

ExtractBalanced ==
    /\ pc = "call"
    /\ region' = extract_balanced(js, start, delims[1], delims[2])
    /\ pc' = "return"
    /\ UNCHANGED <<js, start, delims, edges, mainVars, litVars>>

NextBalanced == ExtractBalanced

SpecBalanced == InitBalanced /\ [][NextBalanced]_vars

-----------------------------------------------------------------------------
(* SpecAliases: _collect_aliases on the edges assign_re finds              *)

AliasNames == {Q, <<Ch.a>>, <<Ch.b>>, <<Ch.f>>}

InitAliases ==
    /\ pc = "call"
    /\ edges \in SeqsUpTo(AliasNames \X AliasNames, MaxEdges)
    /\ MainIdle /\ BalIdle /\ LitIdle

CollectAliases ==
    /\ pc = "call"
    /\ aliases' = collect_aliases(edges)
    /\ pc' = "return"
    /\ UNCHANGED <<edges, arr0, arr, offset, target, k_expr, iter, calls,
                   cache, out, err, written, balVars, litVars>>

NextAliases == CollectAliases

SpecAliases == InitAliases /\ [][NextAliases]_vars

-----------------------------------------------------------------------------
(* SpecLiteral: _decode_js_string_literal on arbitrary literal texts       *)
(* SpecRoundTrip: json.dumps, then _decode_js_string_literal               *)

BodyChars == {Ch.bsl, Ch.u, Ch.x, Ch.lbrace, Ch.rbrace, Ch.one, Ch.n}

\* every body up to MaxBody, and every \u followed by four characters
BodyInputs ==
    SeqsUpTo(BodyChars, MaxBody)
        \cup {<<Ch.bsl, Ch.u>> \o d : d \in [1..4 -> {Ch.one, Ch.f, Ch.n}]}

QuoteInputs == {<<Ch.dq, Ch.dq>>, <<Ch.sq, Ch.sq>>, <<Ch.dq, Ch.sq>>, <<Ch.a, Ch.a>>}

LiteralInputs ==
    {<<q[1]>> \o b \o <<q[2]>> : q \in QuoteInputs, b \in BodyInputs}
        \cup {<<>>, <<Ch.dq>>, <<Ch.sq>>}

StrChars == {Ch.dq, Ch.sq, Ch.bsl, Ch.nl, Ch.tab, Ch.soh, Ch.vt, Ch.nul,
             Ch.u, Ch.n, Ch.zero, Ch.eacute}

InitLiteral ==
    /\ pc = "decode"
    /\ literal \in LiteralInputs
    /\ sval = <<>> /\ decoded = <<>>
    /\ MainIdle /\ BalIdle /\ edges = <<>>

InitRoundTrip ==
    /\ pc = "dumps"
    /\ sval \in SeqsUpTo(StrChars, MaxStr)
    /\ literal = <<>> /\ decoded = <<>>
    /\ MainIdle /\ BalIdle /\ edges = <<>>

\* line 314: json.dumps(cache[num], ensure_ascii=False)
DumpsLiteral ==
    /\ pc = "dumps"
    /\ literal' = json_dumps(sval)
    /\ pc' = "decode"
    /\ UNCHANGED <<sval, decoded, edges, mainVars, balVars>>

DecodeLiteral ==
    /\ pc = "decode"
    /\ decoded' = decode_js_string_literal(literal)
    /\ pc' = "return"
    /\ UNCHANGED <<sval, literal, edges, mainVars, balVars>>

NextLiteral == DecodeLiteral

NextRoundTrip == DumpsLiteral \/ DecodeLiteral

SpecLiteral == InitLiteral /\ [][NextLiteral]_vars

SpecRoundTrip == InitRoundTrip /\ [][NextRoundTrip]_vars

-----------------------------------------------------------------------------
(* Spec: main().  The source text is read through regular expressions;     *)
(* what each recogniser finds in it is an input of the step that reads it. *)

BootstrapErrors ==
    {"RuntimeError: Could not locate the bootstrap IIFE",
     "ValueError: Unbalanced brackets",
     "RuntimeError: Could not locate bootstrap IIFE invocation",
     "RuntimeError: Could not parse bootstrap IIFE call arguments",
     "RuntimeError: Could not extract bootstrap K expression"}

QOffsetErrors ==
    {"RuntimeError: Could not find decoder function Q(...)",
     "RuntimeError: Could not parse Q() parameter list",
     "ValueError: Unbalanced brackets",
     "RuntimeError: Could not determine Q() base offset"}

StringArrayErrors ==
    {"RuntimeError: Could not find function",
     "RuntimeError: Could not find opening brace for function",
     "RuntimeError: Could not locate array literal",
     "ValueError: Unbalanced brackets",
     "ValueError: invalid literal for int()"}

\* const K = parseInt(un(0x1));                         if (K === 0x2)
\* const K = 0x1;                                       if (K === 0x1)
\* const K = -parseInt(un(0x0))/0x2 + parseInt(un(0x1)); if (K === 0x1)
\* const K = parseInt(un(0x1))/(parseInt(un(0x0))-0x2);  if (K === 0x1)
BootstrapInputs ==
    {[target |-> 2, k_expr |-> ParseInt(1)],
     [target |-> 1, k_expr |-> Num(1)],
     [target |-> 1, k_expr |-> Bin("+", Bin("/", Neg(ParseInt(0)), Num(2)),
                                        ParseInt(1))],
     [target |-> 1, k_expr |-> Bin("/", ParseInt(1),
                                        Bin("-", ParseInt(0), Num(2)))]}

\* the elements "2x" (parseInt gives 2) and "x" (parseInt fails)
ElemInputs == {<<Ch.two, Ch.x>>, <<Ch.x>>}

TableInputs == SeqsUpTo(ElemInputs, MaxLen)

MainEdgeInputs == {<<>>, <<<<<<Ch.a>>, Q>>>>}

IndexInputs == 0..(MaxLen + MaxOffset)

HexArg(n) == <<Ch.zero, Ch.x, HexChar(n)>>

MatchInputs == [name : {Q, <<Ch.a>>}, arg : {HexArg(n) : n \in IndexInputs}]

Init ==
    /\ pc = "bootstrap"
    /\ MainIdle /\ BalIdle /\ LitIdle /\ edges = <<>>

\* line 270
ExtractBootstrap ==
    /\ pc = "bootstrap"
    /\ \/ \E e \in BootstrapErrors :
             pc' = "failed" /\ err' = e /\ UNCHANGED <<target, k_expr>>
       \/ \E b \in BootstrapInputs :
             /\ target' = b.target /\ k_expr' = b.k_expr
             /\ pc' = "q_offset" /\ UNCHANGED err
    /\ UNCHANGED <<arr0, arr, offset, iter, edges, aliases, calls, cache, out,
                   written, balVars, litVars>>

\* line 271
ExtractQOffset ==
    /\ pc = "q_offset"
    /\ \/ \E e \in QOffsetErrors : pc' = "failed" /\ err' = e /\ UNCHANGED offset
       \/ \E o \in 0..MaxOffset : offset' = o /\ pc' = "string_array" /\ UNCHANGED err
    /\ UNCHANGED <<arr0, arr, target, k_expr, iter, edges, aliases, calls, cache,
                   out, written, balVars, litVars>>

\* line 272
ExtractStringArray ==
    /\ pc = "string_array"
    /\ \/ \E e \in StringArrayErrors :
             pc' = "failed" /\ err' = e /\ UNCHANGED <<arr, arr0>>
       \/ \E t \in TableInputs :
             arr' = t /\ arr0' = t /\ pc' = "rotate" /\ UNCHANGED err
    /\ UNCHANGED <<offset, target, k_expr, iter, edges, aliases, calls, cache,
                   out, written, balVars, litVars>>

\* one pass of the for loop, lines 290-297
RotateAttempt ==
    /\ pc = "rotate"
    /\ iter < max_iter
    /\ IF Converged(arr)
       THEN pc' = "aliases" /\ UNCHANGED <<arr, iter, err>>
       ELSE IF arr = <<>>
       THEN /\ pc' = "failed" /\ err' = "IndexError: pop from empty list"
            /\ UNCHANGED <<arr, iter>>
       ELSE /\ arr' = RotateOnce(arr) /\ iter' = iter + 1
            /\ UNCHANGED <<pc, err>>
    /\ UNCHANGED <<arr0, offset, target, k_expr, edges, aliases, calls, cache,
                   out, written, balVars, litVars>>

\* the else clause of the for loop, lines 298-299
RotateExhausted ==
    /\ pc = "rotate"
    /\ iter >= max_iter
    /\ pc' = "failed"
    /\ err' = "RuntimeError: Failed to rotate string table"
    /\ UNCHANGED <<arr0, arr, offset, target, k_expr, iter, edges, aliases, calls,
                   cache, out, written, balVars, litVars>>

\* line 301
ResolveAliases ==
    /\ pc = "aliases"
    /\ \E es \in MainEdgeInputs : edges' = es /\ aliases' = collect_aliases(es)
    /\ pc' = "rewrite"
    /\ UNCHANGED <<arr0, arr, offset, target, k_expr, iter, calls, cache, out,
                   err, written, balVars, litVars>>

\* replace(m) for the next match m that call_re.sub finds, lines 306-314
Replace ==
    /\ pc = "rewrite"
    /\ Len(calls) < MaxCalls
    /\ \E m \in MatchInputs :
          /\ calls' = Append(calls, m)
          /\ IF m.name \notin aliases
             THEN /\ out' = Append(out, MatchText(m))
                  /\ UNCHANGED <<pc, err, cache>>
             ELSE LET num == PyInt16(m.arg).v
                      d == decode(arr, offset, num)
                  IN IF num \in DOMAIN cache
                     THEN /\ out' = Append(out, json_dumps(cache[num]))
                          /\ UNCHANGED <<pc, err, cache>>
                     ELSE IF d.ok
                     THEN /\ cache' = [n \in DOMAIN cache \cup {num} |->
                                          IF n = num THEN d.v ELSE cache[n]]
                          /\ out' = Append(out, json_dumps(cache'[num]))
                          /\ UNCHANGED <<pc, err>>
                     ELSE /\ pc' = "failed" /\ err' = d.exc
                          /\ UNCHANGED <<out, cache>>
    /\ UNCHANGED <<arr0, arr, offset, target, k_expr, iter, edges, aliases,
                   written, balVars, litVars>>

\* call_re.sub has no further match; lines 318-328
WriteOutput ==
    /\ pc = "rewrite"
    /\ written' = TRUE
    /\ pc' = "done"
    /\ UNCHANGED <<arr0, arr, offset, target, k_expr, iter, edges, aliases, calls,
                   cache, out, err, balVars, litVars>>

Next ==
    \/ ExtractBootstrap
    \/ ExtractQOffset
    \/ ExtractStringArray
    \/ RotateAttempt
    \/ RotateExhausted
    \/ ResolveAliases
    \/ Replace
    \/ WriteOutput

Spec == Init /\ [][Next]_vars

-----------------------------------------------------------------------------
(* Properties of _extract_balanced (SpecBalanced).                         *)

\* the number of backslashes that end just before index k, counted after index m
RECURSIVE BackslashRun(_, _, _)
BackslashRun(text, m, k) ==
    IF k - 1 > m /\ text[k] = Ch.bsl THEN 1 + BackslashRun(text, m, k - 1) ELSE 0

\* the index of the quote closing the string opened at index m, -1 if none does
StringClose(text, m) ==
    LET ends == {k \in (m + 1)..(Len(text) - 1) :
                    /\ text[k + 1] = text[m + 1]
                    /\ BackslashRun(text, m, k) % 2 = 0
                    /\ \A h \in (m + 1)..(k - 1) :
                          ~(text[h + 1] = text[m + 1] /\ BackslashRun(text, m, h) % 2 = 0)}
    IN IF ends = {} THEN -1 ELSE CHOOSE k \in ends : TRUE

\* the indices from p on that lie outside every quoted string
RECURSIVE Structural(_, _)
Structural(text, p) ==
    IF p >= Len(text) THEN {}
    ELSE IF text[p + 1] \in {Ch.sq, Ch.dq}
    THEN IF StringClose(text, p) = -1 THEN {}
         ELSE Structural(text, StringClose(text, p) + 1)
    ELSE {p} \cup Structural(text, p + 1)

\* opens minus closes among the structural indices st..k
DepthAt(text, st, k, open_ch, close_ch) ==
    Cardinality({m \in Structural(text, st) : m <= k /\ text[m + 1] = open_ch})
        - Cardinality({m \in Structural(text, st) : m <= k /\ text[m + 1] = close_ch})

\* the structural close delimiters that bring the depth back to zero
TrueCloses(text, st, open_ch, close_ch) ==
    {k \in Structural(text, st) :
        text[k + 1] = close_ch /\ DepthAt(text, st, k, open_ch, close_ch) = 0}

\* C5: when text[start] = open_ch the scanner returns the region that ends at
\* the first close delimiter outside any quoted string that brings the depth
\* back to zero (a backslash inside a string consumes the next character);
\* it fails with "Unbalanced brackets" when there is none, and with
\* "Expected open_ch" when text[start] # open_ch.
BalancedRegionEndsAtTrueClose ==
    pc = "return" =>
        IF js[start + 1] # delims[1]
        THEN region = Raise("ValueError: Expected open_ch at start")
        ELSE LET closes == TrueCloses(js, start, delims[1], delims[2])
             IN IF closes = {}
                THEN region = Raise("ValueError: Unbalanced brackets")
                ELSE LET k == CHOOSE c \in closes : \A d \in closes : c <= d
                     IN region = Ok([text |-> SubSeq(js, start + 1, k + 1),
                                     end |-> k + 1])

\* a region was returned that holds a close delimiter inside a quoted string
\* and an escaped quote
BalancedRegionSkipsString ==
    /\ pc = "return"
    /\ region.ok
    /\ \E m \in start..(region.v.end - 2) :
          js[m + 1] = delims[2] /\ m \notin Structural(js, start)
    /\ \E m \in start..(region.v.end - 3) :
          js[m + 1] = Ch.bsl /\ js[m + 2] \in {Ch.sq, Ch.dq}

-----------------------------------------------------------------------------
(* Properties of _collect_aliases (SpecAliases).                           *)

AliasClosed(S) ==
    /\ Q \in S
    /\ \A k \in 1..Len(edges) : edges[k][2] \in S => edges[k][1] \in S

\* C6: the resolver returns the least set that holds Q and holds new-name
\* whenever it holds existing-name, whatever the order of the declarations.
AliasesAreLeastClosure ==
    pc = "return" =>
        /\ AliasClosed(aliases)
        /\ \A S \in SUBSET AliasNames : AliasClosed(S) => aliases \subseteq S

\* declarations f = b; b = a; a = Q, listed against the direction of resolution
AliasChainReversed ==
    /\ pc = "return"
    /\ edges = <<<<<<Ch.f>>, <<Ch.b>>>>, <<<<Ch.b>>, <<Ch.a>>>>, <<<<Ch.a>>, Q>>>>
    /\ aliases = {Q, <<Ch.a>>, <<Ch.b>>, <<Ch.f>>}

-----------------------------------------------------------------------------
(* Properties of the literal encoder and decoder.                          *)

\* no unescaped quote q in body from index i on, and no backslash left
\* to escape the closing quote
RECURSIVE ProperBody(_, _, _)
ProperBody(body, q, i) ==
    IF i > Len(body) THEN TRUE
    ELSE IF body[i] = Ch.bsl THEN i + 1 <= Len(body) /\ ProperBody(body, q, i + 2)
    ELSE IF body[i] = q THEN FALSE
    ELSE ProperBody(body, q, i + 1)

ProperlyQuoted(lit) ==
    /\ Len(lit) >= 2
    /\ lit[1] = lit[Len(lit)]
    /\ lit[1] \in {Ch.sq, Ch.dq}
    /\ ProperBody(SubSeq(lit, 2, Len(lit) - 1), lit[1], 1)

\* C9 (SpecRoundTrip): decoding the literal json.dumps emits for s returns s,
\* and that literal is properly quoted.
RoundTripLiteral ==
    /\ pc \in {"decode", "return"} => ProperlyQuoted(literal)
    /\ pc = "return" => decoded = Ok(sval)

\* a value with a quote, a backslash and a control character went round
RoundTripOfEscapes ==
    /\ pc = "return"
    /\ sval = <<Ch.dq, Ch.bsl, Ch.soh>>
    /\ literal = <<Ch.dq, Ch.bsl, Ch.dq, Ch.bsl, Ch.bsl, Ch.bsl, Ch.u, Ch.zero,
                   Ch.zero, Ch.zero, Ch.one, Ch.dq>>
    /\ decoded = Ok(sval)

\* C10 (SpecLiteral): a literal of length >= 2 in matching quotes always
\* decodes to a string; any other text fails with "Not a JS string literal",
\* the decoder's only failure.
DecodeLiteralNeverFails ==
    pc = "return" =>
        IF Len(literal) >= 2 /\ literal[1] = literal[Len(literal)]
                             /\ literal[1] \in {Ch.sq, Ch.dq}
        THEN decoded.ok
        ELSE decoded = Raise("ValueError: Not a JS string literal")

-----------------------------------------------------------------------------
(* Properties of main() (Spec).                                            *)

\* the table t after k rotations: the element at index i moves to (i - k) mod n
RotatedBy(t, k) == [i \in 1..Len(t) |-> t[((i - 1 + k) % Len(t)) + 1]]

InLoop == pc = "rotate"

RotationDidNotConverge == "RuntimeError: Failed to rotate string table"

\* C1: the rotation loop makes at most max(10000, 5 * len(table)) attempts
\* and is left in one of two ways only: at the first rotation state whose
\* evaluation equals the target, with no rotation applied after it, or with
\* RotationDidNotConverge after no attempt matched.
RotationLoopOutcome ==
    [][InLoop =>
        /\ iter' <= max_iter
        /\ \/ pc' = "rotate"
           \/ /\ pc' = "aliases"
              /\ arr' = arr
              /\ Converged(arr)
              /\ \A k \in 0..(iter - 1) : ~Converged(RotatedBy(arr0, k))
           \/ /\ pc' = "failed"
              /\ err' = RotationDidNotConverge
              /\ \A k \in 0..(max_iter - 1) : ~Converged(RotatedBy(arr0, k))]_vars

\* the positions of the table, as the decode function is specified
InTable(p) == p \in 0..(Len(arr) - 1)

\* C2: decode(index) is table[index - offset] when that position is in the
\* table and fails with an index error for every other position, negative
\* ones included; decode is the one function both the evaluation of the
\* convergence expression and the rewriter call.
DecodeFailsOutsideTable ==
    pc \in {"rotate", "aliases", "rewrite", "done"} =>
        \A num \in IndexInputs :
            IF InTable(num - offset)
            THEN decode(arr, offset, num) = Ok(arr[num - offset + 1])
            ELSE decode(arr, offset, num) = Raise("IndexError: list index out of range")

\* C3: each match replace() has returned from is unchanged when its name is
\* no alias, and is otherwise the literal of table[index - offset], a position
\* of the converged table, whether or not the index was cached.
RewriteReplacesAliasCalls ==
    \A i \in 1..Len(out) :
        IF calls[i].name \notin aliases
        THEN out[i] = MatchText(calls[i])
        ELSE LET p == PyInt16(calls[i].arg).v - offset
             IN InTable(p) /\ out[i] = json_dumps(arr[p + 1])

\* C4: a run ends with the output written after every stage succeeded, or
\* with an error and no output; a written output holds no alias call left
\* unresolved or resolved from a position outside the table.
RunWritesOnlyResolvedOutput ==
    /\ pc \in {"done", "failed"} => (written <=> pc = "done")
    /\ pc = "failed" <=> err # ""
    /\ written =>
          /\ Len(out) = Len(calls)
          /\ \A i \in 1..Len(calls) :
                calls[i].name \in aliases =>
                    /\ InTable(PyInt16(calls[i].arg).v - offset)
                    /\ out[i] # MatchText(calls[i])

\* C7: during the rotation loop and after it the table has the length of the
\* extracted table and is that table rotated by the number of rotations made
\* (index i of the extracted table is at index (i - iter) mod n); once the
\* loop is left the table is not changed again.
IsRotation ==
    /\ Len(arr) = Len(arr0)
    /\ \A i \in 0..(Len(arr0) - 1) :
          arr[((i - iter) % Len(arr0)) + 1] = arr0[i + 1]

TableOnlyRotates ==
    [][/\ IsRotation
       /\ IsRotation'
       /\ pc \notin {"string_array", "rotate"} => arr' = arr
       /\ pc = "rotate" /\ pc' # "rotate" => arr' = arr]_vars

\* a table of three elements was rotated twice, then read by the rewriter
RotatedTableRewritten ==
    /\ pc = "done"
    /\ Len(arr0) = 3
    /\ iter = 2
    /\ arr # arr0
    /\ arr = <<arr0[3], arr0[1], arr0[2]>>
    /\ cache # NoCache

\* C8: an attempt whose evaluation raises is handled as a non-matching one:
\* the run goes on, the table is rotated by one position and the expression
\* is evaluated again on the next attempt.
FirstToEnd(t) == IF t = <<>> THEN t ELSE Append(Tail(t), Head(t))

FailedEvaluationRotates ==
    [][InLoop /\ iter < max_iter /\ ~EvalK(arr).ok =>
          /\ pc' = "rotate"
          /\ iter' = iter + 1
          /\ arr' = FirstToEnd(arr)]_vars

====
